---- MODULE Spec2Model ----
(***************************************************************************)
(* First-fit free-list allocator of wasabi-os (src/src/allocator.rs).      *)
(*                                                                         *)
(* The heap is a map from header addresses to Header records; the chain is *)
(* the linked structure rooted at first_header, exactly as the code keeps  *)
(* it (Option<Box<Header>> links; None is the null address 0).             *)
(*                                                                         *)
(* The machine word is WordBits wide (64 in the program, scaled down here  *)
(* so that TLC's integers can hold every intermediate value); all usize    *)
(* arithmetic is done modulo Word.  An arithmetic overflow is a panic in a *)
(* build with overflow checks and a wrap-around in a build without them:   *)
(* both outcomes are kept, chosen per call.  Physical memory lies below    *)
(* PhysLimit == 2^(WordBits-6), as 52-bit physical addresses lie below     *)
(* 2^58 on the 64-bit machine.                                             *)
(***************************************************************************)
EXTENDS Integers, Sequences, FiniteSets, Bags, TLC

VARIABLES
    first_header,   \* FirstFitAllocator.first_header: address of the head Header, or None
    heap,           \* the Headers written in memory: address -> Header
    live,           \* the pointers the caller holds: a bag of [ptr, size, align]
    registered,     \* the ranges handed over by init_with_mmap: set of [start, size]
    fault,          \* "none", or why the machine stopped
    last,           \* the call just made and what it returned
    pow_in,         \* argument of round_up_to_nearest_pow2 (pure-function specification)
    pow_out,        \* its result, or NotRun
    borrowed,       \* the borrow flag of the first_header RefCell: a RefMut is alive
    walk            \* the alloc_with_options call in progress (step-wise specifications)

vars == <<first_header, heap, live, registered, fault, last, pow_in, pow_out, borrowed, walk>>

---------------------------------------------------------------------------
\* Bounds of the model

WordBits == 28        \* width of usize in the model
MaxRegions == 3       \* allocate is offered while the chain holds at most this many Headers
MaxPages == 3         \* small descriptors have 0..MaxPages pages
BigPages == 72        \* page count of the one large descriptor size

---------------------------------------------------------------------------
\* Program constants

HEADER_SIZE == 32
PAGE_SIZE == 4096
None == 0

RECURSIVE Pow2(_)
Pow2(n) == IF n = 0 THEN 1 ELSE 2 * Pow2(n - 1)

Word == Pow2(WordBits)
PhysLimit == Pow2(WordBits - 6)

max(a, b) == IF a >= b THEN a ELSE b

---------------------------------------------------------------------------
\* usize arithmetic

WrappingAdd(a, b) == (a + b) % Word
WrappingSub(a, b) == (a - b + Word) % Word

RECURSIVE WrappingMul(_, _)
WrappingMul(a, b) ==
    IF b = 0 THEN 0
    ELSE ((IF b % 2 = 1 THEN a ELSE 0) + 2 * WrappingMul(a, b \div 2)) % Word

AddOverflows(a, b) == a + b >= Word
SubOverflows(a, b) == a < b
MulOverflows(a, b) == b # 0 /\ a > (Word - 1) \div b

RECURSIVE BitAnd(_, _)
BitAnd(a, b) ==
    IF a = 0 \/ b = 0 THEN 0
    ELSE (a % 2) * (b % 2) + 2 * BitAnd(a \div 2, b \div 2)

BitNot(a) == Word - 1 - a

RECURSIVE BitLength(_)
BitLength(v) == IF v = 0 THEN 0 ELSE 1 + BitLength(v \div 2)

leading_zeros(v) == WordBits - BitLength(v)

Ok(v) == [ok |-> TRUE, val |-> v, err |-> ""]
Err(e) == [ok |-> FALSE, val |-> 0, err |-> e]

\* usize::checked_shl: None when the shift amount is not below the width
checked_shl(x, s) == IF s >= WordBits THEN Err("Out of range") ELSE Ok((x * Pow2(s)) % Word)

\* mutant: the shift is taken from v instead of v - 1
RoundUpWithoutSub(v) ==
    checked_shl(1, WordBits - leading_zeros(v))

round_up_to_nearest_pow2(v) ==
    checked_shl(1, WordBits - leading_zeros(WrappingSub(v, 1)))

\* Layout::from_size_align: align a power of two, size + align - 1 <= isize::MAX
Sizes == {0, 3, 2000, 5000}
Aligns == {1, 64, 4096, Pow2(WordBits - 6)}
Layouts ==
    {l \in [size : Sizes, align : Aligns]
            \cup {[size |-> Pow2(WordBits - 2) + 1, align |-> Pow2(WordBits - 7)]} :
        l.size + l.align <= Pow2(WordBits - 1)}

\* round_up_to_nearest_pow2 on the sizes requested, each evaluated once
RoundUpOfSize == [v \in {l.size : l \in Layouts} |-> round_up_to_nearest_pow2(v)]
RoundUp(v) == IF v \in DOMAIN RoundUpOfSize THEN RoundUpOfSize[v] ELSE round_up_to_nearest_pow2(v)

---------------------------------------------------------------------------
\* Header

\* struct Header { next_header, size, is_allocated, _reserved }; the reserved word is never read
Header(next, size, alloc) == [next_header |-> next, size |-> size, is_allocated |-> alloc]

\* the bound of Header::can_provide, size + HEADER_SIZE * 2 * align, as the machine computes it
CanProvideBound(size, align) == WrappingAdd(size, WrappingMul(align, HEADER_SIZE * 2))

CanProvideOverflows(size, align) ==
    \/ MulOverflows(align, HEADER_SIZE * 2)
    \/ AddOverflows(size, WrappingMul(align, HEADER_SIZE * 2))

\* mutant: the test asks for the payload alone
CanProvideNoOverhead(hdr, size, align) == hdr.size >= size

can_provide(hdr, size, align) == hdr.size >= CanProvideBound(size, align)

\* mutant: the allocation flag is not looked at
IsAllocatedIgnored(hdr) == FALSE

is_allocated(hdr) == hdr.is_allocated

end_addr(h, a) == WrappingAdd(a, h[a].size)

\* mutant: the allocated Region is given the payload size, without its Header
AllocatedSizeOfPayload(size) == size

\* header_for_allocated.size = size + HEADER_SIZE
AllocatedSize(size) == WrappingAdd(size, HEADER_SIZE)

\* mutant: the Region carved from keeps its size
ShrunkSizeKept(size, size_used) == size

\* mutant: size_used is added to the size of the Region carved from
ShrunkSizeGrown(size, size_used) == WrappingAdd(size, size_used)

\* self.size -= size_used
ShrunkSize(size, size_used) == WrappingSub(size, size_used)

\* mutant: a range of exactly one page is registered
TooSmallStrict(size) == size < PAGE_SIZE

\* if size <= 4096 { return; } in add_free_from_descriptor
TooSmall(size) == size <= PAGE_SIZE

\* mutant: the candidate address is rounded down from the end before the size is taken off
AllocatedAddrSizeAfter(end, size, align) ==
    WrappingSub(BitAnd(end, BitNot(WrappingSub(align, 1))), size)

\* mutant: the candidate address is not rounded down to the alignment
AllocatedAddrNoMask(end, size, align) == WrappingSub(end, size)

\* (self.end_addr() - size) & !(align - 1)
AllocatedAddr(end, size, align) == BitAnd(WrappingSub(end, size), BitNot(WrappingSub(align, 1)))

\* whether the HEADER_SIZE bytes at addr are memory the allocator was given
InRegistered(reg, addr) ==
    \E r \in reg : r.start <= addr /\ addr + HEADER_SIZE <= r.start + r.size

\* A machine state inside a call: the heap and the fault raised so far.
Mach(h, f) == [heap |-> h, fault |-> f]

\* Header::new_from_addr: header.write(..) of a fresh Header at addr (no drop of what was
\* there); a write outside the memory the allocator was given is a wild write.
new_from_addr(m, reg, addr) ==
    IF m.fault # "none" THEN m
    ELSE IF ~InRegistered(reg, addr) THEN Mach(m.heap, "wild_write")
    ELSE Mach((addr :> Header(None, 0, FALSE)) @@ m.heap, "none")

\* assignment to a next_header slot: the value it held is dropped, and dropping a
\* Header is the panic of impl Drop for Header
SetNext(m, a, v) ==
    IF m.fault # "none" THEN m
    ELSE Mach([m.heap EXCEPT ![a].next_header = v],
              IF m.heap[a].next_header # None THEN "header_dropped" ELSE "none")

\* mutant: the link is copied without take(), the slot keeps its value
TakeNextForgotten(m, a) == m

\* Option::take on a next_header slot: the slot becomes None, nothing is dropped
TakeNext(m, a) ==
    IF m.fault # "none" THEN m
    ELSE Mach([m.heap EXCEPT ![a].next_header = None], "none")

SetSize(m, a, v) ==
    IF m.fault # "none" THEN m ELSE Mach([m.heap EXCEPT ![a].size = v], "none")

SetAllocated(m, a, b) ==
    IF m.fault # "none" THEN m ELSE Mach([m.heap EXCEPT ![a].is_allocated = b], "none")

\* mutant: the link read from the slot is lost
NextLost(m, a) == None

NextOf(m, a) == IF m.fault # "none" THEN None ELSE m.heap[a].next_header

\* what Header::provide yields: the address (None: no carve), the heap it leaves, the
\* fault it ends in, and whether one of its arithmetic operations overflowed
ProvideResult(ret, m, ovf) == [ret |-> ret, heap |-> m.heap, fault |-> m.fault, ovf |-> ovf]

\* Some(addr) is what provide returns when it has run to its end
Returned(addr, m, ovf) == ProvideResult(IF m.fault = "none" THEN addr ELSE None, m, ovf)

\* to.next_header = from.next_header.take()
Relink(m, from, to) == SetNext(TakeNext(m, from), to, NextOf(m, from))

\* lines 89-94 of Header::provide: the Header of the allocated Region is written at hfa
\* and takes over the link of self
AllocatedHeader(h, reg, self, size, hfa) ==
    Relink(SetSize(SetAllocated(new_from_addr(Mach(h, "none"), reg, hfa), hfa, TRUE),
                   hfa, AllocatedSize(size)),
           self, hfa)

\* mutant: the padding Region covers its own Header only
PaddingSizeOfHeader(self_end, hfa_end) == HEADER_SIZE

\* header_for_padding.size = self.end_addr() - header_for_allocated.end_addr()
PaddingSize(self_end, hfa_end) == WrappingSub(self_end, hfa_end)

\* lines 97-103 of Header::provide: the padding Header is written where the allocated
\* Region ends, takes over its link and is linked behind it
PaddingHeader(m, reg, hfa, hfa_end, self_end) ==
    SetNext(Relink(SetSize(SetAllocated(new_from_addr(m, reg, hfa_end), hfa_end, FALSE),
                           hfa_end, PaddingSize(self_end, hfa_end)),
                   hfa, hfa_end),
            hfa, hfa_end)

\* lines 96-104 of Header::provide: a padding Header is made when the allocated Region
\* does not end where self ends
Padding(m, reg, self, hfa) ==
    IF m.fault # "none" THEN m
    ELSE IF end_addr(m.heap, hfa) = end_addr(m.heap, self) THEN m
    ELSE PaddingHeader(m, reg, hfa, end_addr(m.heap, hfa), end_addr(m.heap, self))

\* size_used of Header::provide: the allocated Region's size plus the padding's
SizeUsed(h, self, hfa) ==
    WrappingAdd(h[hfa].size,
                IF end_addr(h, hfa) = end_addr(h, self) THEN 0 ELSE h[end_addr(h, hfa)].size)

\* lines 106-110 of Header::provide: the assertion, self shrunk by size_used and linked
\* to the allocated Region, the address returned
Shrink(m, self, hfa, size_used, allocated_addr, ovf) ==
    IF ~(m.heap[self].size >= WrappingAdd(size_used, HEADER_SIZE))
    THEN ProvideResult(None, Mach(m.heap, "assert_failed"), ovf)
    ELSE Returned(allocated_addr,
                  SetNext(SetSize(m, self, ShrunkSize(m.heap[self].size, size_used)),
                          self, hfa),
                  ovf)

\* the end of Header::provide on the machine state the Headers were written in
Finish(m, self, hfa, allocated_addr, ovf) ==
    IF m.fault # "none" THEN ProvideResult(None, m, ovf)
    ELSE Shrink(m, self, hfa, SizeUsed(m.heap, self, hfa), allocated_addr, ovf)

\* whether an operation of lines 88-107 of Header::provide overflows
CarveOverflows(h, self, size, end, allocated_addr, hfa) ==
    \/ AddOverflows(self, h[self].size)
    \/ SubOverflows(end, size)
    \/ SubOverflows(allocated_addr, HEADER_SIZE)
    \/ AddOverflows(size, HEADER_SIZE)
    \/ AddOverflows(hfa, WrappingAdd(size, HEADER_SIZE))
    \/ SubOverflows(end, WrappingAdd(hfa, WrappingAdd(size, HEADER_SIZE)))

\* lines 86-110 of Header::provide, entered once the sufficiency test has passed
Carve(h, reg, self, size, align) ==
    LET end == end_addr(h, self)
        allocated_addr == AllocatedAddr(end, size, align)
        hfa == WrappingSub(allocated_addr, HEADER_SIZE)
    IN  Finish(Padding(AllocatedHeader(h, reg, self, size, hfa), reg, self, hfa),
               self, hfa, allocated_addr,
               CarveOverflows(h, self, size, end, allocated_addr, hfa))

\* Header::provide, with wrapping arithmetic
provide(h, reg, self, size, align) ==
    LET r == RoundUp(size) IN
    IF ~r.ok THEN ProvideResult(None, Mach(h, "none"), FALSE)
    ELSE
    LET nsize == max(r.val, HEADER_SIZE)
        nalign == max(align, HEADER_SIZE)
    IN  IF is_allocated(h[self]) THEN ProvideResult(None, Mach(h, "none"), FALSE)
        ELSE IF ~can_provide(h[self], nsize, nalign)
             THEN ProvideResult(None, Mach(h, "none"), CanProvideOverflows(nsize, nalign))
        ELSE LET c == Carve(h, reg, self, nsize, nalign)
             IN  [c EXCEPT !.ovf = @ \/ CanProvideOverflows(nsize, nalign)]

---------------------------------------------------------------------------
\* FirstFitAllocator

\* the loop of alloc_with_options from the Header at cur on; fuel bounds the walk of a
\* chain that has become cyclic (the loop would then never end)
RECURSIVE AllocWalk(_, _, _, _, _, _)

\* one turn of the loop: r is what provide on the Header at cur yielded
AllocTurn(r, h, reg, cur, size, align, fuel) ==
    IF r.fault # "none" \/ r.ret # None THEN r
    ELSE [AllocWalk(h, reg, h[cur].next_header, size, align, fuel - 1)
             EXCEPT !.ovf = @ \/ r.ovf]

AllocWalk(h, reg, cur, size, align, fuel) ==
    IF cur = None THEN ProvideResult(None, Mach(h, "none"), FALSE)
    ELSE IF fuel = 0 THEN ProvideResult(None, Mach(h, "endless_walk"), FALSE)
    ELSE AllocTurn(provide(h, reg, cur, size, align), h, reg, cur, size, align, fuel)

\* mutant: the walk starts behind the head Region
AllocSkippingHead(h, reg, first, layout) ==
    AllocWalk(h, reg, IF first = None THEN None ELSE h[first].next_header,
              layout.size, layout.align, Cardinality(DOMAIN h) + 1)

\* the outcomes of a call over the builds: r where arithmetic wraps, and, when the call
\* overflows, also the panic of a build with overflow checks
Builds(r, panic) == IF r.ovf THEN {r, panic} ELSE {r}

\* alloc_with_options in a build whose arithmetic wraps
alloc_wrapping(h, reg, first, layout) ==
    AllocWalk(h, reg, first, layout.size, layout.align, Cardinality(DOMAIN h) + 1)

\* alloc_with_options: a call none of whose operations overflows runs the same in every
\* build; one that overflows panics at the overflow when overflow checks are compiled in
\* (nothing has been written by then: the sufficiency test is where a call first
\* overflows) and goes on with the wrapped value when they are not
alloc_with_options(h, reg, first, layout) ==
    Builds(alloc_wrapping(h, reg, first, layout),
           ProvideResult(None, Mach(h, "arith_overflow"), TRUE))

\* the allocator inside init_with_mmap: heap, head slot, memory handed over, fault,
\* and whether an arithmetic operation overflowed
Alloc4(h, first, reg, f, ovf) ==
    [heap |-> h, first |-> first, reg |-> reg, fault |-> f, ovf |-> ovf]

add_free_from_descriptor(a, desc) ==
    LET start0 == desc.physical_start
        bytes == WrappingMul(desc.number_of_pages, PAGE_SIZE)
        ovf == a.ovf \/ MulOverflows(desc.number_of_pages, PAGE_SIZE)
        start_addr == IF start0 = 0 THEN PAGE_SIZE ELSE start0
        size == IF start0 = 0 THEN max(bytes - PAGE_SIZE, 0) ELSE bytes
    IN  IF a.fault # "none" THEN a
        ELSE IF TooSmall(size) THEN [a EXCEPT !.ovf = ovf]
        ELSE
        LET reg == a.reg \cup {[start |-> start_addr, size |-> size]}
            m1 == new_from_addr(Mach(a.heap, "none"), reg, start_addr)
            m2 == SetNext(m1, start_addr, None)
            m3 == SetAllocated(m2, start_addr, FALSE)
            m4 == SetSize(m3, start_addr, size)
            prev_last == a.first
            m5 == SetNext(m4, start_addr, prev_last)
        IN  Alloc4(m5.heap, IF m4.fault = "none" THEN start_addr ELSE a.first, reg,
                   m5.fault, ovf)

\* mutant: the memory type of a descriptor is not looked at
RECURSIVE InitFromAnyType(_, _, _)
InitFromAnyType(a, mmap, i) ==
    IF i > Len(mmap) THEN a
    ELSE InitFromAnyType(add_free_from_descriptor(a, mmap[i]), mmap, i + 1)

\* mutant: the map is walked from its last descriptor to its first
RECURSIVE InitFromLast(_, _, _)
InitFromLast(a, mmap, i) ==
    IF i > Len(mmap) THEN a
    ELSE IF mmap[Len(mmap) + 1 - i].memory_type # "CONVENTIONAL_MEMORY"
         THEN InitFromLast(a, mmap, i + 1)
    ELSE InitFromLast(add_free_from_descriptor(a, mmap[Len(mmap) + 1 - i]), mmap, i + 1)

\* the loop of init_with_mmap from the i-th descriptor on
RECURSIVE InitFrom(_, _, _)
InitFrom(a, mmap, i) ==
    IF i > Len(mmap) THEN a
    ELSE IF mmap[i].memory_type # "CONVENTIONAL_MEMORY" THEN InitFrom(a, mmap, i + 1)
    ELSE InitFrom(add_free_from_descriptor(a, mmap[i]), mmap, i + 1)

\* init_with_mmap; as for alloc_with_options, a call in which the page count times 4096
\* overflows panics there in a build with overflow checks
init_with_mmap(a, mmap) ==
    Builds(InitFrom(a, mmap, 1), [a EXCEPT !.fault = "arith_overflow"])

\* mutant: the Header is sought at the pointer itself
FromPayloadAddress(ptr) == ptr

\* Header::from_allocated_region
from_allocated_region(ptr) == WrappingSub(ptr, HEADER_SIZE)

\* GlobalAlloc::dealloc
dealloc(h, ptr) == [h EXCEPT ![from_allocated_region(ptr)].is_allocated = FALSE]

---------------------------------------------------------------------------
\* Inputs

MemTypes == {"CONVENTIONAL_MEMORY", "BOOT_SERVICES_DATA"}

\* first page of the second place descriptors start at, clear of the first
StartPageB == 2 * BigPages

\* descriptors per memory map
MapLengths == {1, 2}

\* usable descriptors in two places, and one descriptor of memory that is not usable
Descriptors ==
    [memory_type : {"CONVENTIONAL_MEMORY"},
     physical_start : {0, StartPageB * PAGE_SIZE},
     number_of_pages : (0 .. MaxPages) \cup {BigPages}]
    \cup [memory_type : MemTypes \ {"CONVENTIONAL_MEMORY"},
          physical_start : {0},
          number_of_pages : {MaxPages}]

\* the bytes a descriptor describes
DescRange(d) == [start |-> d.physical_start, size |-> d.number_of_pages * PAGE_SIZE]

Overlap(r1, r2) ==
    /\ r1.size > 0 /\ r2.size > 0
    /\ r1.start < r2.start + r2.size
    /\ r2.start < r1.start + r1.size

\* memory maps as firmware hands them over: usable descriptors describe distinct
\* physical memory, all of it below PhysLimit
ValidMap(mmap) ==
    /\ \A i \in 1 .. Len(mmap) :
          mmap[i].physical_start + mmap[i].number_of_pages * PAGE_SIZE <= PhysLimit
    /\ \A i, j \in 1 .. Len(mmap) :
          (i < j /\ mmap[i].memory_type = "CONVENTIONAL_MEMORY"
                 /\ mmap[j].memory_type = "CONVENTIONAL_MEMORY")
          => ~Overlap(DescRange(mmap[i]), DescRange(mmap[j]))

MemoryMaps ==
    {mmap \in UNION {[1 .. n -> Descriptors] : n \in MapLengths} : ValidMap(mmap)}

NotRun == [ok |-> FALSE, val |-> 0, err |-> "not run"]

Call(op, size, align, ret, mmap) ==
    [op |-> op, size |-> size, align |-> align, ret |-> ret, mmap |-> mmap]

\* no alloc_with_options call is between its borrow of the head slot and its return
NoWalk == [on |-> FALSE, size |-> 0, align |-> 0, cur |-> None, seen |-> <<>>, chain0 |-> <<>>]

---------------------------------------------------------------------------
\* The allocator as a state machine

Init ==
    /\ first_header = None
    /\ heap = <<>>
    /\ live = EmptyBag
    /\ registered = {}
    /\ fault = "none"
    /\ last = Call("boot", 0, 0, None, <<>>)
    /\ pow_in = 0
    /\ pow_out = NotRun
    /\ borrowed = FALSE
    /\ walk = NoWalk

\* ALLOCATOR.init_with_mmap(memory_map); offered while nothing has been carved, as
\* init_allocator runs during boot
InitWithMmap ==
    /\ fault = "none"
    /\ Cardinality(DOMAIN heap) = Cardinality(registered)
    /\ \E mmap \in MemoryMaps :
          /\ \A i \in 1 .. Len(mmap) :
                mmap[i].memory_type = "CONVENTIONAL_MEMORY"
                => \A r \in registered : ~Overlap(DescRange(mmap[i]), r)
          /\ \E a \in init_with_mmap(Alloc4(heap, first_header, registered, "none", FALSE), mmap) :
                 /\ heap' = a.heap
                 /\ first_header' = a.first
                 /\ registered' = a.reg
                 /\ fault' = a.fault
                 /\ last' = Call("init", 0, 0, None, mmap)
    /\ UNCHANGED <<live, pow_in, pow_out, borrowed, walk>>

\* ALLOCATOR.alloc(layout)
Alloc ==
    /\ fault = "none"
    /\ Cardinality(DOMAIN heap) <= MaxRegions
    /\ \E layout \in Layouts :
          \E r \in alloc_with_options(heap, registered, first_header, layout) :
              /\ heap' = r.heap
              /\ fault' = r.fault
              /\ live' = IF r.ret # None
                         THEN live (+) SetToBag({[ptr |-> r.ret, size |-> layout.size,
                                                  align |-> layout.align]})
                         ELSE live
              /\ last' = Call("alloc", layout.size, layout.align, r.ret, <<>>)
    /\ UNCHANGED <<first_header, registered, pow_in, pow_out, borrowed, walk>>

\* ALLOCATOR.dealloc(ptr, layout) on a pointer the caller holds
Dealloc ==
    /\ fault = "none"
    /\ \E a \in BagToSet(live) :
          /\ heap' = dealloc(heap, a.ptr)
          /\ live' = live (-) SetToBag({a})
          /\ last' = Call("dealloc", a.size, a.align, a.ptr, <<>>)
    /\ UNCHANGED <<first_header, registered, fault, pow_in, pow_out, borrowed, walk>>

Next == InitWithMmap \/ Alloc \/ Dealloc

Spec == Init /\ [][Next]_vars

---------------------------------------------------------------------------
\* round_up_to_nearest_pow2 on its own: the argument is drawn from the small values,
\* the neighbours of every power of two, and the top of the word

Pow2Inputs ==
    (0 .. 2 * HEADER_SIZE)
    \cup {Pow2(k) + d : k \in 1 .. WordBits - 1, d \in {-1, 0, 1}}
    \cup {Word - 1}

InitPow2 ==
    /\ first_header = None
    /\ heap = <<>>
    /\ live = EmptyBag
    /\ registered = {}
    /\ fault = "none"
    /\ last = Call("boot", 0, 0, None, <<>>)
    /\ pow_in \in Pow2Inputs
    /\ pow_out = NotRun
    /\ borrowed = FALSE
    /\ walk = NoWalk

RoundUpCall ==
    /\ pow_out = NotRun
    /\ pow_out' = round_up_to_nearest_pow2(pow_in)
    /\ UNCHANGED <<first_header, heap, live, registered, fault, last, pow_in, borrowed, walk>>

NextPow2 == RoundUpCall

SpecPow2 == InitPow2 /\ [][NextPow2]_vars

---------------------------------------------------------------------------
\* Vocabulary of the properties

\* the Headers reached from the head slot, in chain order
RECURSIVE ChainFrom(_, _, _)
ChainFrom(h, a, fuel) ==
    IF a = None \/ fuel = 0 \/ a \notin DOMAIN h THEN <<>>
    ELSE <<a>> \o ChainFrom(h, h[a].next_header, fuel - 1)

ChainOf(h, first) == ChainFrom(h, first, Cardinality(DOMAIN h) + 1)
Chain == ChainOf(heap, first_header)
ChainSet == {Chain[i] : i \in 1 .. Len(Chain)}

LivePtrs == BagToSet(live)

\* [s1, s1 + n1) and [s2, s2 + n2) share no byte
Disjoint(s1, n1, s2, n2) == s1 + n1 <= s2 \/ s2 + n2 <= s1

\* the request as provide normalizes it, in unbounded integers
NSize(size) == max(RoundUp(size).val, HEADER_SIZE)
NAlign(align) == max(align, HEADER_SIZE)
Normalizes(size) == RoundUp(size).ok

\* the Region at a is free and large enough for the request by the rule of the
\* specification, size + 2 * header_size * align, computed without wrap-around
Sufficient(h, a, size, align) ==
    /\ Normalizes(size)
    /\ ~h[a].is_allocated
    /\ h[a].size >= NSize(size) + 2 * HEADER_SIZE * NAlign(align)

AllocReturned == last.op = "alloc" /\ last.ret # None

---------------------------------------------------------------------------
\* C1: in every reachable state the payload ranges [p, p + requested size) of the
\* allocations the caller holds are pairwise disjoint (and no pointer is held twice).
C1_LivePayloadsDisjoint ==
    \A a \in LivePtrs :
        /\ CopiesIn(a, live) = 1
        /\ \A b \in LivePtrs \ {a} : Disjoint(a.ptr, a.size, b.ptr, b.size)

\* two allocations are live, the later one carved after a deallocation freed a Region
C1_Witness ==
    /\ AllocReturned
    /\ Cardinality(LivePtrs) >= 2
    /\ \E a \in ChainSet : ~heap[a].is_allocated /\ heap[a].size = AllocatedSize(NSize(3))

\* C2: in every reachable state no two Regions of the chain, free, allocated or
\* padding, have overlapping extents [address, address + size).
C2_RegionsDisjoint ==
    \A a, b \in ChainSet :
        a # b => Disjoint(a, heap[a].size, b, heap[b].size)

\* a carve that made a padding Region, in a chain holding two registered ranges
C2_Witness ==
    /\ AllocReturned
    /\ Cardinality(registered) = 2
    /\ \E a \in ChainSet :
          /\ heap[a].is_allocated
          /\ heap[a].next_header # None
          /\ heap[a].next_header = a + heap[a].size
          /\ ~heap[heap[a].next_header].is_allocated
          /\ heap[heap[a].next_header].size < NAlign(last.align)

\* C3: the pointer a successful allocate(size, align) returns is non-null and a
\* multiple of align.
C3_ReturnedPointerAligned ==
    AllocReturned => last.ret # 0 /\ last.ret % last.align = 0

\* a successful allocation at alignment 4096, and one at an alignment below the header size
C3_Witness ==
    /\ AllocReturned
    /\ last.align = 4096
    /\ \E a \in LivePtrs : a.align = 1

\* C4: every allocate call ends in null or in an aligned pointer whose payload lies in
\* registered memory; no call overflows into a panic or a write outside that memory.
C4_NullOrValidPointer ==
    /\ fault = "none"
    /\ AllocReturned =>
          /\ last.ret % last.align = 0
          /\ \E r \in registered :
                r.start <= last.ret /\ last.ret + last.size <= r.start + r.size

\* C5: with one registered range and nothing else live, allocate(size, align) right after
\* the deallocation of a block of the same size and alignment succeeds and reuses the
\* freed memory: the chain gains no Region.
C5_FreedMemoryReused ==
    [][(/\ last.op = "dealloc"
        /\ LivePtrs = {}
        /\ Cardinality(registered) = 1
        /\ last'.op = "alloc"
        /\ last'.size = last.size
        /\ last'.align = last.align)
       => (last'.ret # None /\ DOMAIN heap' = DOMAIN heap)]_vars

\* C6: allocate on a chain none of whose Regions can satisfy the request returns null
\* without a fault and leaves the head slot and every Header as they were; a request
\* that some Region can satisfy then still succeeds.
C6_FailedAllocateChangesNothing ==
    [][(/\ last'.op = "alloc"
        /\ \A a \in ChainSet : ~Sufficient(heap, a, last'.size, last'.align))
       => (/\ fault' = "none"
           /\ last'.ret = None
           /\ heap' = heap
           /\ first_header' = first_header
           /\ \A l \in Layouts :
                 (\E a \in ChainSet : Sufficient(heap, a, l.size, l.align))
                 => \A r \in alloc_with_options(heap', registered', first_header', l) :
                       r.ret # None)]_vars

IsPow2(x) == \E k \in 0 .. WordBits - 1 : x = Pow2(k)

\* C7: round_up_to_nearest_pow2(v) is the smallest power of two >= v for 1 <= v <= 2^(w-1),
\* and the error "Out of range" exactly for v = 0 and for v > 2^(w-1).
C7_RoundUpSmallestPow2 ==
    pow_out # NotRun =>
        IF pow_in = 0 \/ pow_in > Pow2(WordBits - 1)
        THEN pow_out = Err("Out of range")
        ELSE /\ pow_out.ok
             /\ IsPow2(pow_out.val)
             /\ pow_out.val >= pow_in
             /\ pow_out.val = 1 \/ pow_out.val \div 2 < pow_in
             /\ pow_in = 3 => pow_out.val = 4
             /\ pow_in \in 5 .. 8 => pow_out.val = 8
             /\ pow_in = 9 => pow_out.val = 16

\* the largest value that still rounds, 2^(w-1), has been rounded to itself
C7_Witness ==
    pow_in = Pow2(WordBits - 1) /\ pow_out = Ok(Pow2(WordBits - 1))

SingleUsableAtZero(mmap) ==
    /\ Len(mmap) = 1
    /\ mmap[1].memory_type = "CONVENTIONAL_MEMORY"
    /\ mmap[1].physical_start = 0

\* the step put one free Region [start, start + size) at the head of the chain
Prepended(start, size) ==
    /\ heap' = (start :> Header(first_header, size, FALSE)) @@ heap
    /\ first_header' = start
    /\ registered' = registered \cup {[start |-> start, size |-> size]}

NothingRegistered ==
    heap' = heap /\ first_header' = first_header /\ registered' = registered

\* C8 as stated: init with a single usable descriptor of N pages at address 0 registers,
\* for every N > 1, one free Region of (N-1)*4096 bytes starting at 4096; a descriptor
\* that is not usable registers nothing.
C8_EveryNAboveOne ==
    [][(last'.op = "init" /\ Len(last'.mmap) = 1)
       => LET d == last'.mmap[1] IN
          /\ (SingleUsableAtZero(last'.mmap) /\ d.number_of_pages > 1)
             => Prepended(PAGE_SIZE, (d.number_of_pages - 1) * PAGE_SIZE)
          /\ d.memory_type # "CONVENTIONAL_MEMORY" => NothingRegistered]_vars

\* C8 amended: it does so for every N > 2; for N <= 2 the range left after the first page
\* is at most one page and nothing is registered; no Region ever starts in the first page.
C8_EveryNAboveTwo ==
    [][(last'.op = "init" /\ Len(last'.mmap) = 1)
       => LET d == last'.mmap[1] IN
          /\ (SingleUsableAtZero(last'.mmap) /\ d.number_of_pages > 2)
             => Prepended(PAGE_SIZE, (d.number_of_pages - 1) * PAGE_SIZE)
          /\ (SingleUsableAtZero(last'.mmap) /\ d.number_of_pages <= 2) => NothingRegistered
          /\ d.memory_type # "CONVENTIONAL_MEMORY" => NothingRegistered
          /\ \A a \in DOMAIN heap' : a >= PAGE_SIZE]_vars

\* a single usable descriptor of three or more pages at address 0 has been registered
C8_Witness ==
    /\ last.op = "init"
    /\ SingleUsableAtZero(last.mmap)
    /\ last.mmap[1].number_of_pages > 2
    /\ first_header = PAGE_SIZE
    /\ heap[PAGE_SIZE].size = (last.mmap[1].number_of_pages - 1) * PAGE_SIZE

\* C9: no Header is ever dropped: the panic of impl Drop for Header is unreachable.
C9_NoHeaderDropped == fault # "header_dropped"

\* link slots have been overwritten by a prepend onto a non-empty chain and by a carve
\* from a Region that had a successor
C9_Witness ==
    /\ fault = "none"
    /\ AllocReturned
    /\ Cardinality(registered) = 2
    /\ Len(Chain) >= 4
    /\ heap[Chain[Len(Chain)]].is_allocated

\* index in ch of the first Region that can satisfy the request, 0 when there is none
FirstSufficient(h, ch, size, align) ==
    LET ok == {i \in 1 .. Len(ch) : Sufficient(h, ch[i], size, align)}
    IN  IF ok = {} THEN 0 ELSE CHOOSE i \in ok : \A j \in ok : i <= j

\* C10: a call that returns carves from the first Region, in chain order, that is free
\* and passes the sufficiency test, and returns null only when the chain holds none.
C10_FirstFit ==
    [][(last'.op = "alloc" /\ fault' = "none")
       => LET i == FirstSufficient(heap, Chain, last'.size, last'.align)
              R == Chain[i]
          IN  IF i = 0 THEN last'.ret = None
              ELSE /\ last'.ret # None
                   /\ R <= last'.ret
                   /\ last'.ret + last'.size <= R + heap[R].size
                   /\ heap'[R].size < heap[R].size
                   /\ \A j \in 1 .. i - 1 : heap'[Chain[j]] = heap[Chain[j]]]_vars

\* a request was carved from a Region behind the head, the head being free but too small
C10_Witness ==
    /\ AllocReturned
    /\ ~heap[first_header].is_allocated
    /\ ~Sufficient(heap, first_header, last.size, last.align)
    /\ \E R \in ChainSet \ {first_header} :
          heap[R].next_header = from_allocated_region(last.ret)

---------------------------------------------------------------------------
\* Vocabulary of the carve

\* x rounded down to a multiple of n, in unbounded integers
RoundDown(x, n) == x - (x % n)

\* the step is a call of allocate that returned a pointer
AllocStep == last'.op = "alloc" /\ last'.ret # None /\ fault' = "none"

\* the Regions of the chain the step changed
Changed == {a \in ChainSet : heap'[a] # heap[a]}

\* the Headers the step created
Created == DOMAIN heap' \ DOMAIN heap

\* C11: a successful carve from a free Region ending at end returns (end - nsize) rounded
\* down to a multiple of nalign: the payload lies less than nalign below the end of the
\* Region and above its start.
C11_PayloadAnchoredAtEnd ==
    [][AllocStep
       => \E R \in ChainSet :
             LET end == R + heap[R].size IN
             /\ ~heap[R].is_allocated
             /\ Changed = {R}
             /\ last'.ret = RoundDown(end - NSize(last'.size), NAlign(last'.align))
             /\ last'.ret > end - NSize(last'.size) - NAlign(last'.align)
             /\ last'.ret > R]_vars

\* a payload was placed below the end of its Region by rounding down to 4096
C11_Witness ==
    /\ AllocReturned
    /\ last.align = 4096
    /\ \E R \in ChainSet :
          /\ heap[R].next_header = from_allocated_region(last.ret)
          /\ heap[heap[R].next_header].next_header = last.ret + NSize(last.size)

\* C12: provide(size, align) on a Region of the chain returns a pointer exactly when the
\* size normalizes, the Region is free and its size is at least nsize + 2 * header_size *
\* nalign; otherwise it returns None, without a fault and with every Header as it was;
\* allocate(0, align) returns null.
C12_ProvideIffSufficient ==
    fault = "none" =>
        /\ \A a \in ChainSet : \A l \in Layouts :
              LET r == provide(heap, registered, a, l.size, l.align) IN
              /\ (r.ret # None) <=> Sufficient(heap, a, l.size, l.align)
              /\ ~Sufficient(heap, a, l.size, l.align)
                 => (r.heap = heap /\ r.fault = "none" /\ ~r.ovf)
        /\ (last.op = "alloc" /\ last.size = 0) => last.ret = None

\* C13: in every reachable state every Region of the chain has a size of at least the
\* header size, and the assertion of provide has never failed.
C13_RegionsHoldAHeader ==
    /\ fault # "assert_failed"
    /\ \A a \in ChainSet : heap[a].size >= HEADER_SIZE

\* a carve has left its Region too small to serve the same request again
C13_Witness ==
    /\ AllocReturned
    /\ \E R \in ChainSet :
          /\ heap[R].next_header = from_allocated_region(last.ret)
          /\ ~heap[R].is_allocated
          /\ ~Sufficient(heap, R, last.size, last.align)

\* the chain after the step
ChainAfter == ChainOf(heap', first_header')

\* position of the Region a in the chain ch, 0 when it is not in it
IndexIn(ch, a) ==
    IF \E i \in 1 .. Len(ch) : ch[i] = a THEN CHOOSE i \in 1 .. Len(ch) : ch[i] = a ELSE 0

\* the Regions a carve made for the pointer p: the allocated one, then the padding
NewRegions(p) ==
    LET hfa == p - HEADER_SIZE
        pad == hfa + heap'[hfa].size
    IN  IF pad \in Created THEN <<hfa, pad>> ELSE <<hfa>>

\* C14: a successful carve from the Region R with successor N leaves the chain as
\* ..., R, allocated Region, padding Region if one was made, N, ...: R stays free at its
\* address, loses exactly the bytes of the new Regions, and nothing else changes.
C14_CarveSplicesBehindRegion ==
    [][AllocStep
       => \E R \in ChainSet :
             LET i == IndexIn(Chain, R)
                 new == NewRegions(last'.ret)
             IN  /\ Changed = {R}
                 /\ first_header' = first_header
                 /\ Created = {new[k] : k \in 1 .. Len(new)}
                 /\ ChainAfter = SubSeq(Chain, 1, i) \o new \o SubSeq(Chain, i + 1, Len(Chain))
                 /\ ~heap'[R].is_allocated
                 /\ heap'[R].size + heap'[new[1]].size
                    + (IF Len(new) = 2 THEN heap'[new[2]].size ELSE 0) = heap[R].size
                 /\ heap'[new[Len(new)]].next_header = heap[R].next_header]_vars

\* a carve with padding from a Region that had a successor
C14_Witness ==
    /\ AllocReturned
    /\ \E R \in ChainSet :
          LET hfa == heap[R].next_header
              pad == last.ret + NSize(last.size)
          IN  /\ hfa = from_allocated_region(last.ret)
              /\ heap[hfa].next_header = pad
              /\ heap[pad].next_header # None
              /\ heap[pad].size < NAlign(last.align)

\* C15: a carve makes a padding Region exactly when the allocated Region, which ends at
\* payload + nsize, does not end where the Region carved from ends; the padding is free,
\* starts at payload + nsize, has size (end - nsize) mod nalign, a multiple of the header
\* size that is at least the header size and below nalign, and ends where that Region ended.
C15_PaddingFillsTheGap ==
    [][AllocStep
       => \E R \in ChainSet :
             LET end == R + heap[R].size
                 nsize == NSize(last'.size)
                 nalign == NAlign(last'.align)
                 pad == last'.ret + nsize
             IN  /\ Changed = {R}
                 /\ pad \in Created <=> pad # end
                 /\ Created \subseteq {last'.ret - HEADER_SIZE, pad}
                 /\ pad \in Created
                    => /\ ~heap'[pad].is_allocated
                       /\ heap'[pad].size = (end - nsize) % nalign
                       /\ heap'[pad].size % HEADER_SIZE = 0
                       /\ heap'[pad].size >= HEADER_SIZE
                       /\ heap'[pad].size < nalign
                       /\ pad + heap'[pad].size = end]_vars

\* allocate(2000, 4096) has left a padding of 2048 bytes behind its payload
C15_Witness ==
    /\ AllocReturned
    /\ last.size = 2000 /\ last.align = PAGE_SIZE
    /\ last.ret + NSize(last.size) \in DOMAIN heap
    /\ heap[last.ret + NSize(last.size)].size = PAGE_SIZE - NSize(last.size)
    /\ ~heap[last.ret + NSize(last.size)].is_allocated

\* C16: deallocate(p) on a live pointer clears the is_allocated flag of the Header at
\* p - header_size and changes nothing else: sizes, links, chain order, head slot and all
\* other Headers stay; deallocating p once more would leave the state as it is.
C16_DeallocClearsFlagOnly ==
    [][last'.op = "dealloc"
       => LET hdr == last'.ret - HEADER_SIZE IN
          /\ hdr \in ChainSet
          /\ heap[hdr].is_allocated
          /\ heap' = [heap EXCEPT ![hdr].is_allocated = FALSE]
          /\ first_header' = first_header
          /\ ChainAfter = Chain
          /\ registered' = registered
          /\ fault' = fault
          /\ dealloc(heap', last'.ret) = heap']_vars

\* a block was deallocated while another one is live and its Region has a successor
C16_Witness ==
    /\ last.op = "dealloc"
    /\ LivePtrs # {}
    /\ ~heap[last.ret - HEADER_SIZE].is_allocated
    /\ heap[last.ret - HEADER_SIZE].next_header # None

\* C17: for every pointer p the caller holds, the chain has a Region whose Header is at
\* p - header_size, marked allocated, of size nsize + header_size; the requested payload
\* [p, p + size) lies in that Region behind its Header and overlaps no Header of the chain.
C17_LivePointerHasItsRegion ==
    \A a \in LivePtrs :
        LET hdr == a.ptr - HEADER_SIZE IN
        /\ hdr \in ChainSet
        /\ heap[hdr].is_allocated
        /\ heap[hdr].size = NSize(a.size) + HEADER_SIZE
        /\ hdr + HEADER_SIZE <= a.ptr
        /\ a.ptr + a.size <= hdr + heap[hdr].size
        /\ \A h \in ChainSet : Disjoint(a.ptr, a.size, h, HEADER_SIZE)

\* a block of 2000 bytes is still held after later carves and a deallocation
C17_Witness ==
    /\ last.op = "dealloc"
    /\ Len(Chain) >= 4
    /\ \E a \in LivePtrs : a.size = 2000 /\ heap[a.ptr - HEADER_SIZE].next_header # None

\* the range a descriptor leaves for the allocator, in unbounded integers: its bytes,
\* without the first page when it starts at address 0
RangeOf(d) ==
    IF d.physical_start = 0
    THEN [start |-> PAGE_SIZE, size |-> max(d.number_of_pages * PAGE_SIZE - PAGE_SIZE, 0)]
    ELSE [start |-> d.physical_start, size |-> d.number_of_pages * PAGE_SIZE]

\* the descriptor is usable memory and leaves more than 4096 bytes
Survives(d) == d.memory_type = "CONVENTIONAL_MEMORY" /\ RangeOf(d).size > PAGE_SIZE

\* the step is a call of init_with_mmap
InitStep == last'.op = "init"

\* positions in the map of the step of the descriptors that survive
Surviving == {i \in 1 .. Len(last'.mmap) : Survives(last'.mmap[i])}

\* C18: during initialize a descriptor contributes no Region exactly when it is not usable
\* memory or its byte size, less one page when it starts at address 0, is at most 4096;
\* every other descriptor contributes exactly one free Region [start, start + size), the
\* start being 4096 instead of 0 for a descriptor at address 0.
C18_OneRegionPerSurvivingDescriptor ==
    [][InitStep
       => /\ fault' = "none"
          /\ Created = {RangeOf(last'.mmap[i]).start : i \in Surviving}
          /\ Cardinality(Created) = Cardinality(Surviving)
          /\ \A i \in Surviving :
                LET r == RangeOf(last'.mmap[i]) IN
                /\ ~heap'[r.start].is_allocated
                /\ heap'[r.start].size = r.size
          /\ registered' = registered \cup {RangeOf(last'.mmap[i]) : i \in Surviving}
          /\ \A a \in DOMAIN heap : heap'[a] = heap[a]]_vars

\* a map was processed whose first descriptor is registered and whose second, two usable
\* pages at address 0, leaves exactly 4096 bytes and is dropped
C18_Witness ==
    /\ last.op = "init"
    /\ Len(last.mmap) = 2
    /\ Survives(last.mmap[1])
    /\ last.mmap[2].memory_type = "CONVENTIONAL_MEMORY"
    /\ last.mmap[2].physical_start = 0
    /\ last.mmap[2].number_of_pages = 2
    /\ first_header = last.mmap[1].physical_start
    /\ PAGE_SIZE \notin DOMAIN heap

\* the starts of the Regions of the surviving descriptors of mmap from position i on,
\* the one of the last descriptor first
RECURSIVE PrependOrder(_, _)
PrependOrder(mmap, i) ==
    IF i > Len(mmap) THEN <<>>
    ELSE PrependOrder(mmap, i + 1)
         \o (IF Survives(mmap[i]) THEN <<RangeOf(mmap[i]).start>> ELSE <<>>)

\* positions in mmap of the surviving descriptors whose Region suffices for the request
SufficingIn(mmap, size, align) ==
    {i \in 1 .. Len(mmap) :
        /\ Survives(mmap[i])
        /\ Normalizes(size)
        /\ RangeOf(mmap[i]).size >= NSize(size) + 2 * HEADER_SIZE * NAlign(align)}

\* C19: initialize prepends: the Regions of the surviving descriptors of the map come, in
\* the reverse of their map order, ahead of the Regions the chain held; the first allocate
\* after an initialize of an empty chain is served from the last descriptor of the map
\* whose Region can satisfy it.
C19_InitPrependsInReverse ==
    [][/\ InitStep => ChainAfter = PrependOrder(last'.mmap, 1) \o Chain
       /\ (last.op = "init" /\ Chain = PrependOrder(last.mmap, 1) /\ AllocStep)
          => LET ok == SufficingIn(last.mmap, last'.size, last'.align)
                 i == CHOOSE k \in ok : \A j \in ok : j <= k
             IN  ok # {} /\ Changed = {RangeOf(last.mmap[i]).start}]_vars

\* a map with two surviving descriptors was processed: the chain starts with the Region
\* of the second, then that of the first
C19_Witness ==
    /\ last.op = "init"
    /\ Len(last.mmap) = 2
    /\ Survives(last.mmap[1]) /\ Survives(last.mmap[2])
    /\ Len(Chain) >= 2
    /\ Chain[1] = RangeOf(last.mmap[2]).start
    /\ Chain[2] = RangeOf(last.mmap[1]).start

\* the elements of s occur in t in the same order
RECURSIVE IsSubSeq(_, _)
IsSubSeq(s, t) ==
    IF s = <<>> THEN TRUE
    ELSE IF t = <<>> THEN FALSE
    ELSE IF Head(s) = Head(t) THEN IsSubSeq(Tail(s), Tail(t))
    ELSE IsSubSeq(s, Tail(t))

\* C20: Regions are never merged or removed: over every step each Region keeps its
\* address and its place in the chain order, no size grows and the chain gets no shorter;
\* an allocate that returns a pointer adds one Region, or two when it makes a padding,
\* and a deallocate or an allocate that returns null adds none and changes no size.
C20_NoMergeNoRemoval ==
    [][LET before == Chain
           after == ChainAfter
       IN  /\ DOMAIN heap \subseteq DOMAIN heap'
           /\ Len(after) >= Len(before)
           /\ \A a \in DOMAIN heap : heap'[a].size <= heap[a].size
           /\ IsSubSeq(before, after)
           /\ AllocStep
              => /\ Len(after) - Len(before) = Cardinality(Created)
                 /\ Cardinality(Created) =
                       IF last'.ret + NSize(last'.size) \in Created THEN 2 ELSE 1
           /\ (last'.op = "dealloc" \/ (last'.op = "alloc" /\ last'.ret = None))
              => /\ Created = {}
                 /\ after = before
                 /\ \A a \in DOMAIN heap : heap'[a].size = heap[a].size]_vars

\* a deallocation has left two free Regions next to each other, the first ending where
\* the second starts, and they are still two Regions
C20_Witness ==
    /\ last.op = "dealloc"
    /\ \E a, b \in ChainSet :
          /\ ~heap[a].is_allocated /\ ~heap[b].is_allocated
          /\ a + heap[a].size = b
          /\ b = last.ret - HEADER_SIZE

\* C21: an allocate call, whatever its outcome, leaves every Region that is marked
\* allocated when it starts as it was: size, flag and next link at the same address.
C21_AllocatedRegionsUntouched ==
    [][last'.op = "alloc"
       => \A a \in DOMAIN heap :
             heap[a].is_allocated => (a \in DOMAIN heap' /\ heap'[a] = heap[a])]_vars

\* allocate returned null although an allocated Region of the chain is large enough for
\* the request: the walk passed over it
C21_Witness ==
    /\ last.op = "alloc" /\ last.ret = None /\ fault = "none"
    /\ Normalizes(last.size)
    /\ \E a \in ChainSet :
          /\ heap[a].is_allocated
          /\ heap[a].size >= NSize(last.size) + 2 * HEADER_SIZE * NAlign(last.align)

\* C22: in every reachable state the chain from the head slot is finite and acyclic and
\* holds every Header ever created exactly once: none is orphaned, none is the next of
\* two Headers, and the head is the next of none.
C22_ChainHoldsEveryRegionOnce ==
    /\ fault # "endless_walk"
    /\ ChainSet = DOMAIN heap
    /\ Len(Chain) = Cardinality(DOMAIN heap)
    /\ (first_header = None) <=> (DOMAIN heap = {})
    /\ Chain # <<>> => heap[Chain[Len(Chain)]].next_header = None
    /\ \A a \in DOMAIN heap :
          /\ heap[a].next_header # a
          /\ heap[a].next_header # None
             => /\ heap[a].next_header \in DOMAIN heap
                /\ heap[a].next_header # first_header
                /\ \A b \in DOMAIN heap \ {a} : heap[b].next_header # heap[a].next_header

\* a chain of at least five Regions from two registered ranges, after carves with and
\* without padding and a deallocation
C22_Witness ==
    /\ last.op = "dealloc"
    /\ Cardinality(registered) = 2
    /\ Len(Chain) >= 5
    /\ \E a \in ChainSet : ~heap[a].is_allocated /\ heap[a].size < PAGE_SIZE

---------------------------------------------------------------------------
\* alloc_with_options one turn of its loop per step: the call borrows the head slot,
\* walks the chain from first_header, and returns at the first carve or at the end of
\* the chain.  walk.seen lists the Regions provide has been called on, walk.chain0 is
\* the chain as it was when the call was entered.

\* mutant: the borrow flag is not looked at
BorrowMutUnchecked(b) == "none"

\* RefCell::borrow_mut on first_header: a panic while a RefMut of the slot is alive
borrow_mut(b) == IF b THEN "already_borrowed" ELSE "none"

\* mutant: the walk stays on the Region it has just tried
WalkStays(h, cur) == cur

\* header = e.next_header.borrow_mut()
Advance(h, cur) == h[cur].next_header

\* the step-wise specifications start as the allocator does
InitWalk == Init

\* init_with_mmap and dealloc, called while no alloc_with_options call is in progress
InitWhenIdle == ~walk.on /\ InitWithMmap

DeallocWhenIdle == ~walk.on /\ Dealloc

\* entry of alloc_with_options: the head slot is borrowed for the whole call
AllocEnter ==
    /\ fault = "none"
    /\ ~walk.on
    /\ Cardinality(DOMAIN heap) <= MaxRegions
    /\ \E layout \in Layouts :
          /\ fault' = borrow_mut(borrowed)
          /\ borrowed' = TRUE
          /\ walk' = [on |-> TRUE, size |-> layout.size, align |-> layout.align,
                      cur |-> first_header, seen |-> <<>>,
                      chain0 |-> ChainOf(heap, first_header)]
    /\ UNCHANGED <<first_header, heap, live, registered, last, pow_in, pow_out>>

\* a turn of the loop on Some(e): provide is called on the Region; the call returns at
\* a carve, stops at a fault, and goes to the next Region otherwise
WalkProvide ==
    /\ fault = "none"
    /\ walk.on
    /\ walk.cur # None
    /\ \E r \in Builds(provide(heap, registered, walk.cur, walk.size, walk.align),
                       ProvideResult(None, Mach(heap, "arith_overflow"), TRUE)) :
          /\ heap' = r.heap
          /\ fault' = r.fault
          /\ IF r.fault # "none"
             THEN /\ walk' = [walk EXCEPT !.seen = Append(@, walk.cur)]
                  /\ UNCHANGED <<live, last, borrowed>>
             ELSE IF r.ret # None
             THEN /\ walk' = NoWalk
                  /\ borrowed' = FALSE
                  /\ live' = live (+) SetToBag({[ptr |-> r.ret, size |-> walk.size,
                                                 align |-> walk.align]})
                  /\ last' = Call("alloc", walk.size, walk.align, r.ret, <<>>)
             ELSE /\ walk' = [walk EXCEPT !.cur = Advance(heap, walk.cur),
                                          !.seen = Append(@, walk.cur)]
                  /\ UNCHANGED <<live, last, borrowed>>
    /\ UNCHANGED <<first_header, registered, pow_in, pow_out>>

\* a turn of the loop on None: the call returns the null pointer
WalkNull ==
    /\ fault = "none"
    /\ walk.on
    /\ walk.cur = None
    /\ walk' = NoWalk
    /\ borrowed' = FALSE
    /\ last' = Call("alloc", walk.size, walk.align, None, <<>>)
    /\ UNCHANGED <<first_header, heap, live, registered, fault, pow_in, pow_out>>

NextWalk == InitWhenIdle \/ DeallocWhenIdle \/ AllocEnter \/ WalkProvide \/ WalkNull

\* the processor goes on executing the loop of a call it has entered
SpecWalk ==
    InitWalk /\ [][NextWalk]_vars /\ WF_vars(WalkProvide) /\ WF_vars(WalkNull)

IsPrefix(s, t) == Len(s) <= Len(t) /\ \A i \in 1 .. Len(s) : s[i] = t[i]

\* a turn of the loop of the call in progress
WalkTurn == walk.on /\ walk' # walk

\* C23: every allocate call comes to its end within one turn of its loop per Region of
\* the chain and one more: each turn calls provide on the next Region of the chain as
\* it was when the call was entered, in chain order and on no Region twice, or finds
\* the end of the chain after every Region has been tried and returns; after a turn the
\* call is over (a carve, a fault) or stands on the successor of the Region just tried.
C23_AllocateTerminates ==
    [][WalkTurn =>
         IF walk.cur = None
         THEN /\ walk.seen = walk.chain0
              /\ ~walk'.on
         ELSE /\ IsPrefix(Append(walk.seen, walk.cur), walk.chain0)
              /\ Len(walk.seen) + 1 <= Len(walk.chain0)
              /\ \A i \in 1 .. Len(walk.seen) : walk.seen[i] # walk.cur
              /\ walk'.on => /\ walk'.seen = Append(walk.seen, walk.cur)
                             /\ walk'.chain0 = walk.chain0
                             /\ fault' = "none" => walk'.cur = heap[walk.cur].next_header
              /\ (~walk'.on) => AllocStep]_vars

C23_Witness ==
    /\ walk.on
    /\ walk.cur = None
    /\ fault = "none"
    /\ Len(walk.chain0) >= 3
    /\ walk.seen = walk.chain0

---------------------------------------------------------------------------
\* A second execution context on the same processor (an interrupt or exception handler)
\* that calls the allocator while an alloc_with_options call is inside its walk.  The
\* handler runs to its end before the interrupted call goes on; a panic stops the
\* machine.

\* the memory maps of the boot in this specification: one usable descriptor of
\* MaxPages or BigPages pages at the second place descriptors start at
BootMaps ==
    {<<d>> : d \in {e \in Descriptors : /\ Survives(e)
                                        /\ e.physical_start # 0
                                        /\ e.number_of_pages \in {MaxPages, BigPages}
                                        /\ ValidMap(<<e>>)}}

\* the maps a nested init_with_mmap is called with: one usable descriptor, of one page
\* (dropped) or of MaxPages pages (registered)
NestedMaps ==
    {<<d>> : d \in {e \in Descriptors : /\ e.memory_type = "CONVENTIONAL_MEMORY"
                                        /\ e.number_of_pages \in {1, MaxPages}
                                        /\ ValidMap(<<e>>)}}

\* the layouts a nested alloc_with_options is called with
NestedLayouts == {layout \in Layouts : layout.size = 3 /\ layout.align \in {1, PAGE_SIZE}}

\* init_allocator at boot
InitAtBoot ==
    /\ registered = {}
    /\ InitWhenIdle
    /\ last'.mmap \in BootMaps

\* entry of the alloc_with_options call that is interrupted, its alignment one of two
AllocEnterFirst ==
    /\ AllocEnter
    /\ walk'.align \in {1, PAGE_SIZE}

\* alloc_with_options entered while the head slot is borrowed: borrow_mut is its first
\* operation
AllocNested ==
    /\ fault = "none"
    /\ walk.on
    /\ Cardinality(DOMAIN heap) <= MaxRegions
    /\ \E layout \in NestedLayouts :
          IF borrow_mut(borrowed) # "none"
          THEN /\ fault' = borrow_mut(borrowed)
               /\ last' = Call("alloc_nested", layout.size, layout.align, None, <<>>)
               /\ UNCHANGED <<heap, live>>
          ELSE \E r \in alloc_with_options(heap, registered, first_header, layout) :
                  /\ heap' = r.heap
                  /\ fault' = r.fault
                  /\ live' = IF r.ret # None
                             THEN live (+) SetToBag({[ptr |-> r.ret, size |-> layout.size,
                                                      align |-> layout.align]})
                             ELSE live
                  /\ last' = Call("alloc_nested", layout.size, layout.align, r.ret, <<>>)
    /\ UNCHANGED <<first_header, registered, pow_in, pow_out, borrowed, walk>>

\* add_free_from_descriptor up to its borrow_mut of the head slot: b is the allocator as
\* the whole function leaves it.  A descriptor that is dropped returns before the borrow;
\* for any other the Header has been written (its next_header None) and the head slot
\* is still what it was when borrow_mut panics.
add_free_borrowed(a, b) ==
    IF b.first = a.first \/ b.fault # "none" THEN b
    ELSE Alloc4([b.heap EXCEPT ![b.first].next_header = None], a.first, b.reg,
                "already_borrowed", b.ovf)

\* the loop of init_with_mmap from the i-th descriptor on, the head slot borrowed or not
RECURSIVE InitFromGuarded(_, _, _, _)
InitFromGuarded(a, mmap, i, b) ==
    IF i > Len(mmap) \/ a.fault # "none" THEN a
    ELSE IF mmap[i].memory_type # "CONVENTIONAL_MEMORY" THEN InitFromGuarded(a, mmap, i + 1, b)
    ELSE IF borrow_mut(b) = "none"
         THEN InitFromGuarded(add_free_from_descriptor(a, mmap[i]), mmap, i + 1, b)
    ELSE InitFromGuarded(add_free_borrowed(a, add_free_from_descriptor(a, mmap[i])),
                         mmap, i + 1, b)

\* init_with_mmap entered while the head slot is borrowed
InitNested ==
    /\ fault = "none"
    /\ walk.on
    /\ \E mmap \in NestedMaps :
          /\ \A i \in 1 .. Len(mmap) :
                mmap[i].memory_type = "CONVENTIONAL_MEMORY"
                => \A r \in registered : ~Overlap(DescRange(mmap[i]), r)
          /\ \E a \in Builds(InitFromGuarded(Alloc4(heap, first_header, registered, "none", FALSE),
                                             mmap, 1, borrowed),
                             Alloc4(heap, first_header, registered, "arith_overflow", TRUE)) :
                 /\ heap' = a.heap
                 /\ first_header' = a.first
                 /\ registered' = a.reg
                 /\ fault' = a.fault
                 /\ last' = Call("init_nested", 0, 0, None, mmap)
    /\ UNCHANGED <<live, pow_in, pow_out, borrowed, walk>>

NextReentry ==
    \/ InitAtBoot
    \/ DeallocWhenIdle
    \/ AllocEnterFirst
    \/ WalkProvide
    \/ WalkNull
    \/ AllocNested
    \/ InitNested

SpecReentry == InitWalk /\ [][NextReentry]_vars

\* the step is a call made by the second context inside the walk of a call in progress
NestedStep == walk.on /\ last'.op \in {"alloc_nested", "init_nested"} /\ last' # last

\* C24 (as the code has it): the guard on the head slot is checked at run time.  An
\* allocate call entered on the same processor while an allocate call is inside its walk
\* is stopped by a panic at its borrow of the head slot, before it reads the chain; an
\* initialize call is stopped the same way at the first descriptor it would register,
\* and returns normally only if it registers none.  Neither changes the head slot or
\* any Region of the chain.
C24_GuardRejectsNestedCall ==
    [][NestedStep =>
         /\ first_header' = first_header
         /\ \A a \in DOMAIN heap : a \in DOMAIN heap' /\ heap'[a] = heap[a]
         /\ live' = live
         /\ last'.op = "alloc_nested"
            => fault' = "already_borrowed" /\ last'.ret = None /\ heap' = heap
         /\ last'.op = "init_nested"
            => (fault' = "already_borrowed"
                <=> \E i \in 1 .. Len(last'.mmap) : Survives(last'.mmap[i]))]_vars

\* C24 (as stated): the guard does not stop or reject the second call.
C24_GuardNeverRejects ==
    [][NestedStep => fault' = "none"]_vars

C24_Witness ==
    /\ last.op = "alloc_nested"
    /\ fault = "already_borrowed"
    /\ walk.on
    /\ walk.cur # None
    /\ Len(walk.seen) >= 1

---------------------------------------------------------------------------
\* the Regions (Headers) lying in a registered range
RegionsIn(r) == {a \in DOMAIN heap : r.start <= a /\ a < r.start + r.size}

RECURSIVE SumOfRegions(_)
SumOfRegions(ch) ==
    IF ch = <<>> THEN 0 ELSE heap[Head(ch)].size + SumOfRegions(Tail(ch))

RECURSIVE SumOfRanges(_)
SumOfRanges(rs) ==
    IF rs = {} THEN 0
    ELSE LET r == CHOOSE x \in rs : TRUE IN r.size + SumOfRanges(rs \ {r})

\* C25: in every reachable state the Regions of the chain tile the registered memory:
\* every Region lies in a registered range, every range has a Region at its start, each
\* Region ends where the range ends or where another Region starts, no two Regions
\* overlap, and the sizes of the Regions add up to the sizes registered (so allocate
\* and deallocate, which register nothing, leave the sum as it is).
C25_RegionsTileRegisteredMemory ==
    LET ch == Chain
        cs == {ch[i] : i \in 1 .. Len(ch)}
    IN  /\ \A a \in cs : \E r \in registered : a \in RegionsIn(r)
        /\ \A r \in registered :
              /\ r.start \in cs
              /\ \A a \in RegionsIn(r) \cap cs :
                    /\ heap[a].size > 0
                    /\ \/ end_addr(heap, a) = r.start + r.size
                       \/ end_addr(heap, a) \in RegionsIn(r) \cap cs
        /\ \A a, b \in cs : a # b => Disjoint(a, heap[a].size, b, heap[b].size)
        /\ SumOfRegions(ch) = SumOfRanges(registered)

\* two registered ranges, one of them cut into an allocated Region, a padding Region
\* and a Region that was allocated and is free again
C25_Witness ==
    /\ fault = "none"
    /\ Cardinality(registered) = 2
    /\ \E r \in registered :
          /\ Cardinality(RegionsIn(r)) >= 4
          /\ \E a, b \in RegionsIn(r) :
                /\ a # b
                /\ heap[a].is_allocated
                /\ ~heap[b].is_allocated
                /\ b # r.start
                /\ \E x \in LivePtrs : x.ptr = a + HEADER_SIZE

\* the two Regions lie in the same registered range, that is, descend from the same
\* Region made by init_with_mmap
SameRange(a, b) == \E r \in registered : a \in RegionsIn(r) /\ b \in RegionsIn(r)

\* C26: in every reachable state the chain successor of a Region, when it lies in the
\* same registered range, starts exactly at the Region's end address (address + size);
\* a successor in another range is the first Region of that range and follows the last
\* Region of this one.  With a single registered range the chain is therefore in
\* strictly ascending address order.
C26_ChainOrderIsAddressOrder ==
    LET ch == Chain
    IN  /\ \A i \in 1 .. Len(ch) - 1 :
              IF SameRange(ch[i], ch[i + 1])
              THEN ch[i + 1] = end_addr(heap, ch[i])
              ELSE /\ \E r \in registered : ch[i + 1] = r.start
                   /\ \E r \in registered : end_addr(heap, ch[i]) = r.start + r.size
        /\ Cardinality(registered) = 1
           => \A i, j \in 1 .. Len(ch) : i < j => ch[i] < ch[j]

\* a carve with padding has just cut the only registered range into four Regions or more
C26_Witness ==
    /\ fault = "none"
    /\ Cardinality(registered) = 1
    /\ Len(Chain) >= 4
    /\ last.op = "alloc"
    /\ last.ret # None
    /\ \E i \in 1 .. Len(Chain) - 1 :
          /\ Chain[i] + HEADER_SIZE = last.ret
          /\ ~heap[Chain[i + 1]].is_allocated
          /\ heap[Chain[i + 1]].next_header # None

====
